---- MODULE Spec2Model ----
\* Model of airflow/providers/google/cloud/triggers/cloud_composer.py:
\* the two Cloud Composer triggers (CloudComposerExecutionTrigger and
\* CloudComposerAirflowCLICommandTrigger), their constructors, serialize()
\* and the async generators run(), driven against a scripted remote client.
EXTENDS Integers, Sequences, FiniteSets, TLC

\* ---------------------------------------------------------------------
\* Bounds
\* ---------------------------------------------------------------------

\* Largest number of responses one remote client gives in a behaviour.
MaxPolls == 2

\* ---------------------------------------------------------------------
\* Values
\* ---------------------------------------------------------------------

\* Trigger instances: the original "w", the one the host rebuilds from
\* w.serialize() ("w2"), and a second trigger built like w ("ref").
Inst == {"w", "w2", "ref"}

ExecTag == "airflow.providers.google.cloud.triggers.cloud_composer.CloudComposerExecutionTrigger"

CliTag == "airflow.providers.google.cloud.triggers.cloud_composer.CloudComposerAirflowCLICommandTrigger"

\* Python's None, kept apart from every string.
None == [t |-> "None"]

PyStrValue(s) == [t |-> "str", v |-> s]

DefaultGcpConnId == "google_cloud_default"

DefaultPoolingPeriodSeconds == 30

DefaultPollInterval == 10

ExecParams == {"project_id", "region", "operation_name", "gcp_conn_id", "impersonation_chain", "pooling_period_seconds"}

ExecRequired == {"project_id", "region", "operation_name"}

CliParams == {"project_id", "region", "environment_id", "execution_cmd_info", "gcp_conn_id", "impersonation_chain", "poll_interval"}

CliRequired == {"project_id", "region", "environment_id", "execution_cmd_info"}

OperationNames == {"op-1", "op-2"}

\* Keyword arguments a caller may construct the execution trigger with:
\* the required ones, and any subset of the optional ones.
ExecKwargsSet ==
    { [k \in ExecRequired \cup opt |->
         CASE k = "project_id" -> "proj"
           [] k = "region" -> "us-east1"
           [] k = "operation_name" -> name
           [] k = "gcp_conn_id" -> "my_conn"
           [] k = "impersonation_chain" -> PyStrValue("sa@proj")
           [] k = "pooling_period_seconds" -> 5] :
      opt \in SUBSET (ExecParams \ ExecRequired), name \in OperationNames }

CmdInfos == { [execution_id |-> "e-1", pod |-> "pod-1"], [execution_id |-> "e-2", pod |-> "pod-2"] }

CliKwargsSet ==
    { [k \in CliRequired \cup opt |->
         CASE k = "project_id" -> "proj"
           [] k = "region" -> "us-east1"
           [] k = "environment_id" -> "env-1"
           [] k = "execution_cmd_info" -> info
           [] k = "gcp_conn_id" -> "my_conn"
           [] k = "impersonation_chain" -> PyStrValue("sa@proj")
           [] k = "poll_interval" -> 3] :
      opt \in SUBSET (CliParams \ CliRequired), info \in CmdInfos }

\* Exceptions: a class and the args tuple.
AirflowException(msg) == [cls |-> "AirflowException", args |-> <<msg>>]

Exceptions ==
    { AirflowException("boom"),
      [cls |-> "AirflowException", args |-> <<>>],
      [cls |-> "AirflowException", args |-> <<"boom", "detail">>],
      [cls |-> "ConnectionError", args |-> <<"unreachable">>] }

\* str(ex) of BaseException: "" without args, the argument itself with
\* one, the repr of the args tuple otherwise.
ExStr(ex) ==
    CASE Len(ex.args) = 0 -> ""
      [] Len(ex.args) = 1 -> ex.args[1]
      [] OTHER -> "('" \o ex.args[1] \o "', '" \o ex.args[2] \o "')"

\* `except AirflowException`
IsAirflowException(ex) == ex.cls = "AirflowException"

ErrorMessages == {"", "quota exceeded"}

\* What get_operation can do: return an operation, or raise.
Operations ==
    [kind : {"return"}, name : OperationNames, done : BOOLEAN, error_message : ErrorMessages]

Raises == { [kind |-> "raise", ex |-> ex] : ex \in Exceptions }

ExecResponses == Operations \cup Raises

CommandResults == { [exit_code |-> 0, output |-> "ok"], [exit_code |-> 1, output |-> "failed"] }

\* What wait_command_execution_result can do: return a result, or raise.
CliResponses == { [kind |-> "return", result |-> r] : r \in CommandResults } \cup Raises

\* ---------------------------------------------------------------------
\* State
\* ---------------------------------------------------------------------

VARIABLES
    cls,        \* cls[i]: the class of trigger i ("absent" before it exists)
    kwargs,     \* kwargs[i]: the keyword arguments i was constructed with
    self,       \* self[i]: the attributes of trigger i
    pc,         \* pc[i]: where run() of trigger i stands
    operation,  \* operation[i]: the local `operation` of run(), <<>> if unbound
    trace,      \* trace[i]: what run() of i did so far: calls, sleeps, yields, raise
    remote,     \* remote[c]: the responses remote client c gave so far, in order
    client,     \* client[i]: the remote client the hook of i talks to
    persisted   \* the descriptor the host stored when it started w

vars == <<cls, kwargs, self, pc, operation, trace, remote, client, persisted>>

\* ---------------------------------------------------------------------
\* Constructors and serialize()
\* ---------------------------------------------------------------------

CloudComposerAsyncHook(gcp_conn_id, impersonation_chain) ==
    [gcp_conn_id |-> gcp_conn_id, impersonation_chain |-> impersonation_chain]

Arg(kw, k, default) == IF k \in DOMAIN kw THEN kw[k] ELSE default

ExecInit(kw) ==
    LET conn == Arg(kw, "gcp_conn_id", DefaultGcpConnId)
        chain == Arg(kw, "impersonation_chain", None)
    IN  [ project_id |-> kw["project_id"],
          region |-> kw["region"],
          operation_name |-> kw["operation_name"],
          gcp_conn_id |-> conn,
          impersonation_chain |-> chain,
          pooling_period_seconds |-> Arg(kw, "pooling_period_seconds", DefaultPoolingPeriodSeconds),
          gcp_hook |-> CloudComposerAsyncHook(conn, chain) ]

\* ExecSerialize leaving out pooling_period_seconds.
MutExecSerializeDropsPeriod(s) ==
    << ExecTag,
       [ project_id |-> s.project_id,
         region |-> s.region,
         operation_name |-> s.operation_name,
         gcp_conn_id |-> s.gcp_conn_id,
         impersonation_chain |-> s.impersonation_chain ] >>

ExecSerialize(s) ==
    << ExecTag,
       [ project_id |-> s.project_id,
         region |-> s.region,
         operation_name |-> s.operation_name,
         gcp_conn_id |-> s.gcp_conn_id,
         impersonation_chain |-> s.impersonation_chain,
         pooling_period_seconds |-> s.pooling_period_seconds ] >>

\* CliInit not storing the impersonation chain it was given.
MutCliInitIgnoresChain(kw) ==
    LET conn == Arg(kw, "gcp_conn_id", DefaultGcpConnId)
        chain == None
    IN  [ project_id |-> kw["project_id"],
          region |-> kw["region"],
          environment_id |-> kw["environment_id"],
          execution_cmd_info |-> kw["execution_cmd_info"],
          gcp_conn_id |-> conn,
          impersonation_chain |-> chain,
          poll_interval |-> Arg(kw, "poll_interval", DefaultPollInterval),
          gcp_hook |-> CloudComposerAsyncHook(conn, chain) ]

CliInit(kw) ==
    LET conn == Arg(kw, "gcp_conn_id", DefaultGcpConnId)
        chain == Arg(kw, "impersonation_chain", None)
    IN  [ project_id |-> kw["project_id"],
          region |-> kw["region"],
          environment_id |-> kw["environment_id"],
          execution_cmd_info |-> kw["execution_cmd_info"],
          gcp_conn_id |-> conn,
          impersonation_chain |-> chain,
          poll_interval |-> Arg(kw, "poll_interval", DefaultPollInterval),
          gcp_hook |-> CloudComposerAsyncHook(conn, chain) ]

CliSerialize(s) ==
    << CliTag,
       [ project_id |-> s.project_id,
         region |-> s.region,
         environment_id |-> s.environment_id,
         execution_cmd_info |-> s.execution_cmd_info,
         gcp_conn_id |-> s.gcp_conn_id,
         impersonation_chain |-> s.impersonation_chain,
         poll_interval |-> s.poll_interval ] >>

\* serialize() of trigger i, dispatched on its class.
Serialize(i) == IF cls[i] = ExecTag THEN ExecSerialize(self[i]) ELSE CliSerialize(self[i])

\* A call cls(**kw) binds: every required parameter given, no unknown one.
InitBinds(tag, kw) ==
    IF tag = ExecTag
    THEN ExecRequired \subseteq DOMAIN kw /\ DOMAIN kw \subseteq ExecParams
    ELSE CliRequired \subseteq DOMAIN kw /\ DOMAIN kw \subseteq CliParams

\* The host's construction of a trigger from a descriptor (tag, mapping).
FromDescriptor(d) == IF d[1] = ExecTag THEN ExecInit(d[2]) ELSE CliInit(d[2])

\* ---------------------------------------------------------------------
\* The trace of a run
\* ---------------------------------------------------------------------

CallEntry(fn, args) == [op |-> "call", fn |-> fn, args |-> args]

SleepEntry(seconds) == [op |-> "sleep", seconds |-> seconds]

YieldEntry(event) == [op |-> "yield", event |-> event]

RaiseEntry(ex) == [op |-> "raise", ex |-> ex]

IsCall(e) == e.op = "call"

IsSleep(e) == e.op = "sleep"

IsYield(e) == e.op = "yield"

IsRaise(e) == e.op = "raise"

Calls(i) == SelectSeq(trace[i], IsCall)

Sleeps(i) == SelectSeq(trace[i], IsSleep)

Events(i) == SelectSeq(trace[i], IsYield)

Errors(i) == SelectSeq(trace[i], IsRaise)

\* The remote client answers the latest call of trigger i with resp: the
\* k-th call a client receives gets the client's k-th response, whoever asks.
Answers(i, resp) ==
    LET c == client[i]
        k == Len(Calls(i))
    IN  IF k <= Len(remote[c])
        THEN resp = remote[c][k] /\ remote' = remote
        ELSE /\ Len(remote[c]) < MaxPolls
             /\ remote' = [remote EXCEPT ![c] = Append(@, resp)]

\* ---------------------------------------------------------------------
\* CloudComposerExecutionTrigger.run()
\* ---------------------------------------------------------------------

\* GetOperationCall with operation_name kept on the class instead of the
\* instance: the trigger constructed last sets it for every trigger.
MutGetOperationCallShared(s) ==
    CallEntry("get_operation",
              [operation_name |-> IF cls["w2"] = ExecTag THEN self["w2"].operation_name
                                                          ELSE s.operation_name])

\* self.gcp_hook.get_operation(operation_name=self.operation_name)
GetOperationCall(s) == CallEntry("get_operation", [operation_name |-> s.operation_name])

\* EnvironmentErrorText without the remote message.
MutEnvironmentErrorTextGeneric(message) == "Cloud Composer Environment error"

\* The text of the error run() raises for a remote error message.
EnvironmentErrorText(message) == "Cloud Composer Environment error: " \o message

\* run() is entered: the first pass of the loop awaits get_operation.
ExecStart(i) ==
    /\ cls[i] = ExecTag
    /\ pc[i] = "start"
    /\ trace' = [trace EXCEPT ![i] = Append(@, GetOperationCall(self[i]))]
    /\ pc' = [pc EXCEPT ![i] = "await_get_operation"]
    /\ UNCHANGED <<cls, kwargs, self, operation, remote, client, persisted>>

\* ExecHandle with `continue` for `break`: a done operation is slept on
\* and polled again like a running one.
MutExecHandleNeverBreaks(i, op) ==
    /\ operation' = [operation EXCEPT ![i] = <<op>>]
    /\ UNCHANGED self
    /\ IF ~op.done /\ op.error_message # ""
       THEN /\ trace' = [trace EXCEPT ![i] =
                    Append(@, RaiseEntry(AirflowException(EnvironmentErrorText(op.error_message))))]
            /\ pc' = [pc EXCEPT ![i] = "raised"]
       ELSE /\ trace' = [trace EXCEPT ![i] = Append(@, SleepEntry(self[i].pooling_period_seconds))]
            /\ pc' = [pc EXCEPT ![i] = "sleeping"]

\* ExecHandle keeping the first handle: the event names the operation of
\* the first poll instead of the one that reported done.
MutExecHandleStaleName(i, op) ==
    /\ operation' = [operation EXCEPT ![i] = <<op>>]
    /\ UNCHANGED self
    /\ IF op.done
       THEN /\ trace' = [trace EXCEPT ![i] =
                    Append(@, YieldEntry([operation_name |->
                                              IF operation[i] = <<>> THEN op.name ELSE operation[i][1].name,
                                          operation_done |-> op.done]))]
            /\ pc' = [pc EXCEPT ![i] = "yielded"]
       ELSE IF op.error_message # ""
       THEN /\ trace' = [trace EXCEPT ![i] =
                    Append(@, RaiseEntry(AirflowException(EnvironmentErrorText(op.error_message))))]
            /\ pc' = [pc EXCEPT ![i] = "raised"]
       ELSE /\ trace' = [trace EXCEPT ![i] = Append(@, SleepEntry(self[i].pooling_period_seconds))]
            /\ pc' = [pc EXCEPT ![i] = "sleeping"]

\* ExecHandle backing off: each sleep longer than the one before.
MutExecHandleBackoff(i, op) ==
    /\ operation' = [operation EXCEPT ![i] = <<op>>]
    /\ UNCHANGED self
    /\ IF op.done
       THEN /\ trace' = [trace EXCEPT ![i] =
                    Append(@, YieldEntry([operation_name |-> op.name, operation_done |-> op.done]))]
            /\ pc' = [pc EXCEPT ![i] = "yielded"]
       ELSE IF op.error_message # ""
       THEN /\ trace' = [trace EXCEPT ![i] =
                    Append(@, RaiseEntry(AirflowException(EnvironmentErrorText(op.error_message))))]
            /\ pc' = [pc EXCEPT ![i] = "raised"]
       ELSE /\ trace' = [trace EXCEPT ![i] =
                    Append(@, SleepEntry(self[i].pooling_period_seconds * (Len(Sleeps(i)) + 1)))]
            /\ pc' = [pc EXCEPT ![i] = "sleeping"]

\* ExecHandle remembering the name of the polled operation on the trigger.
MutExecHandleCachesName(i, op) ==
    /\ operation' = [operation EXCEPT ![i] = <<op>>]
    /\ self' = [self EXCEPT ![i].operation_name = op.name]
    /\ IF op.done
       THEN /\ trace' = [trace EXCEPT ![i] =
                    Append(@, YieldEntry([operation_name |-> op.name, operation_done |-> op.done]))]
            /\ pc' = [pc EXCEPT ![i] = "yielded"]
       ELSE IF op.error_message # ""
       THEN /\ trace' = [trace EXCEPT ![i] =
                    Append(@, RaiseEntry(AirflowException(EnvironmentErrorText(op.error_message))))]
            /\ pc' = [pc EXCEPT ![i] = "raised"]
       ELSE /\ trace' = [trace EXCEPT ![i] = Append(@, SleepEntry(self[i].pooling_period_seconds))]
            /\ pc' = [pc EXCEPT ![i] = "sleeping"]

\* ExecHandle sleeping for a hard-coded period instead of the configured one.
MutExecHandleFixedSleep(i, op) ==
    /\ operation' = [operation EXCEPT ![i] = <<op>>]
    /\ UNCHANGED self
    /\ IF op.done
       THEN /\ trace' = [trace EXCEPT ![i] =
                    Append(@, YieldEntry([operation_name |-> op.name, operation_done |-> op.done]))]
            /\ pc' = [pc EXCEPT ![i] = "yielded"]
       ELSE IF op.error_message # ""
       THEN /\ trace' = [trace EXCEPT ![i] =
                    Append(@, RaiseEntry(AirflowException(EnvironmentErrorText(op.error_message))))]
            /\ pc' = [pc EXCEPT ![i] = "raised"]
       ELSE /\ trace' = [trace EXCEPT ![i] = Append(@, SleepEntry(DefaultPoolingPeriodSeconds))]
            /\ pc' = [pc EXCEPT ![i] = "sleeping"]

\* What run() does with the operation get_operation returned: break and
\* yield when done, else raise on an error message, else sleep.
ExecHandle(i, op) ==
    /\ operation' = [operation EXCEPT ![i] = <<op>>]
    /\ UNCHANGED self
    /\ IF op.done
       THEN /\ trace' = [trace EXCEPT ![i] =
                    Append(@, YieldEntry([operation_name |-> op.name, operation_done |-> op.done]))]
            /\ pc' = [pc EXCEPT ![i] = "yielded"]
       ELSE IF op.error_message # ""
       THEN /\ trace' = [trace EXCEPT ![i] =
                    Append(@, RaiseEntry(AirflowException(EnvironmentErrorText(op.error_message))))]
            /\ pc' = [pc EXCEPT ![i] = "raised"]
       ELSE /\ trace' = [trace EXCEPT ![i] = Append(@, SleepEntry(self[i].pooling_period_seconds))]
            /\ pc' = [pc EXCEPT ![i] = "sleeping"]

\* get_operation returns an operation.
ExecGetOperationReturns(i) ==
    /\ cls[i] = ExecTag
    /\ pc[i] = "await_get_operation"
    /\ \E resp \in Operations :
          /\ Answers(i, resp)
          /\ ExecHandle(i, resp)
    /\ UNCHANGED <<cls, kwargs, client, persisted>>

\* ExecPropagate swallowing the failure and going on to the next poll.
MutExecPropagateRetries(i, ex) ==
    /\ trace' = [trace EXCEPT ![i] = Append(@, SleepEntry(self[i].pooling_period_seconds))]
    /\ pc' = [pc EXCEPT ![i] = "sleeping"]
    /\ UNCHANGED <<self, operation>>

\* What run() does when get_operation raises: nothing catches it.
ExecPropagate(i, ex) ==
    /\ trace' = [trace EXCEPT ![i] = Append(@, RaiseEntry(ex))]
    /\ pc' = [pc EXCEPT ![i] = "raised"]
    /\ UNCHANGED <<self, operation>>

\* get_operation raises.
ExecGetOperationRaises(i) ==
    /\ cls[i] = ExecTag
    /\ pc[i] = "await_get_operation"
    /\ \E resp \in Raises :
          /\ Answers(i, resp)
          /\ ExecPropagate(i, resp.ex)
    /\ UNCHANGED <<cls, kwargs, client, persisted>>

\* asyncio.sleep returns: the loop goes round and awaits get_operation again.
ExecSleepReturns(i) ==
    /\ cls[i] = ExecTag
    /\ pc[i] = "sleeping"
    /\ trace' = [trace EXCEPT ![i] = Append(@, GetOperationCall(self[i]))]
    /\ pc' = [pc EXCEPT ![i] = "await_get_operation"]
    /\ UNCHANGED <<cls, kwargs, self, operation, remote, client, persisted>>

\* ExecAfterYield with the yield inside the loop: resumed after the event,
\* the loop goes round and polls again.
MutExecAfterYieldPollsAgain(i) ==
    /\ cls[i] = ExecTag
    /\ pc[i] = "yielded"
    /\ trace' = [trace EXCEPT ![i] = Append(@, GetOperationCall(self[i]))]
    /\ pc' = [pc EXCEPT ![i] = "await_get_operation"]
    /\ UNCHANGED <<cls, kwargs, self, operation, remote, client, persisted>>

\* The generator is resumed after its yield: the body ends.
ExecAfterYield(i) ==
    /\ cls[i] = ExecTag
    /\ pc[i] = "yielded"
    /\ pc' = [pc EXCEPT ![i] = "done"]
    /\ UNCHANGED <<cls, kwargs, self, operation, trace, remote, client, persisted>>

\* ---------------------------------------------------------------------
\* CloudComposerAirflowCLICommandTrigger.run()
\* ---------------------------------------------------------------------

\* WaitCommandCall leaving poll_interval to the default of the hook.
MutWaitCommandCallDefaultInterval(s) ==
    CallEntry("wait_command_execution_result",
              [ project_id |-> s.project_id,
                region |-> s.region,
                environment_id |-> s.environment_id,
                execution_cmd_info |-> s.execution_cmd_info,
                poll_interval |-> DefaultPollInterval ])

\* self.gcp_hook.wait_command_execution_result(project_id=..., ...)
WaitCommandCall(s) ==
    CallEntry("wait_command_execution_result",
              [ project_id |-> s.project_id,
                region |-> s.region,
                environment_id |-> s.environment_id,
                execution_cmd_info |-> s.execution_cmd_info,
                poll_interval |-> s.poll_interval ])

\* run() is entered: it awaits wait_command_execution_result inside the try.
CliStart(i) ==
    /\ cls[i] = CliTag
    /\ pc[i] = "start"
    /\ trace' = [trace EXCEPT ![i] = Append(@, WaitCommandCall(self[i]))]
    /\ pc' = [pc EXCEPT ![i] = "await_wait_command_execution_result"]
    /\ UNCHANGED <<cls, kwargs, self, operation, remote, client, persisted>>

\* CliSuccess keeping the result on the trigger, over execution_cmd_info.
MutCliSuccessStoresResult(i, result) ==
    /\ self' = [self EXCEPT ![i].execution_cmd_info = result]
    /\ UNCHANGED operation
    /\ trace' = [trace EXCEPT ![i] =
            Append(@, YieldEntry([status |-> "success", result |-> result]))]
    /\ pc' = [pc EXCEPT ![i] = "yielded"]

\* CliSuccess reporting every result with exit code 0.
MutCliSuccessExitZero(i, result) ==
    /\ UNCHANGED <<self, operation>>
    /\ trace' = [trace EXCEPT ![i] =
            Append(@, YieldEntry([status |-> "success", result |-> [result EXCEPT !.exit_code = 0]]))]
    /\ pc' = [pc EXCEPT ![i] = "yielded"]

\* What run() does with the result: yield the success event.
CliSuccess(i, result) ==
    /\ UNCHANGED <<self, operation>>
    /\ trace' = [trace EXCEPT ![i] =
            Append(@, YieldEntry([status |-> "success", result |-> result]))]
    /\ pc' = [pc EXCEPT ![i] = "yielded"]

\* wait_command_execution_result returns a result.
CliWaitReturns(i) ==
    /\ cls[i] = CliTag
    /\ pc[i] = "await_wait_command_execution_result"
    /\ \E resp \in CliResponses :
          /\ resp.kind = "return"
          /\ Answers(i, resp)
          /\ CliSuccess(i, resp.result)
    /\ UNCHANGED <<cls, kwargs, client, persisted>>

\* CliExcept with `except Exception`: every error becomes an error event.
MutCliExceptCatchesAll(i, ex) ==
    /\ UNCHANGED <<self, operation>>
    /\ trace' = [trace EXCEPT ![i] =
            Append(@, YieldEntry([status |-> "error", message |-> ExStr(ex)]))]
    /\ pc' = [pc EXCEPT ![i] = "yielded"]

\* CliExcept reporting repr(ex) instead of str(ex).
MutCliExceptRepr(i, ex) ==
    /\ UNCHANGED <<self, operation>>
    /\ IF IsAirflowException(ex)
       THEN /\ trace' = [trace EXCEPT ![i] =
                    Append(@, YieldEntry([status |-> "error",
                                          message |-> ex.cls \o "(" \o ExStr(ex) \o ")"]))]
            /\ pc' = [pc EXCEPT ![i] = "yielded"]
       ELSE /\ trace' = [trace EXCEPT ![i] = Append(@, RaiseEntry(ex))]
            /\ pc' = [pc EXCEPT ![i] = "raised"]

\* What run() does with an exception of the awaited call: an
\* AirflowException becomes an error event, anything else propagates.
CliExcept(i, ex) ==
    /\ UNCHANGED <<self, operation>>
    /\ IF IsAirflowException(ex)
       THEN /\ trace' = [trace EXCEPT ![i] =
                    Append(@, YieldEntry([status |-> "error", message |-> ExStr(ex)]))]
            /\ pc' = [pc EXCEPT ![i] = "yielded"]
       ELSE /\ trace' = [trace EXCEPT ![i] = Append(@, RaiseEntry(ex))]
            /\ pc' = [pc EXCEPT ![i] = "raised"]

\* wait_command_execution_result raises.
CliWaitRaises(i) ==
    /\ cls[i] = CliTag
    /\ pc[i] = "await_wait_command_execution_result"
    /\ \E resp \in Raises :
          /\ Answers(i, resp)
          /\ CliExcept(i, resp.ex)
    /\ UNCHANGED <<cls, kwargs, client, persisted>>

\* CliAfterYield without the `return` of the except branch: after the error
\* event the body runs on to the success yield and fails on the unbound result.
MutCliAfterYieldFallsThrough(i) ==
    /\ cls[i] = CliTag
    /\ pc[i] = "yielded"
    /\ IF Events(i)[1].event.status = "error"
       THEN /\ trace' = [trace EXCEPT ![i] =
                    Append(@, RaiseEntry([cls |-> "UnboundLocalError", args |-> <<"result">>]))]
            /\ pc' = [pc EXCEPT ![i] = "raised"]
       ELSE /\ pc' = [pc EXCEPT ![i] = "done"]
            /\ UNCHANGED trace
    /\ UNCHANGED <<cls, kwargs, self, operation, remote, client, persisted>>

\* The generator is resumed after its yield: `return` on either path.
CliAfterYield(i) ==
    /\ cls[i] = CliTag
    /\ pc[i] = "yielded"
    /\ pc' = [pc EXCEPT ![i] = "done"]
    /\ UNCHANGED <<cls, kwargs, self, operation, trace, remote, client, persisted>>

\* ---------------------------------------------------------------------
\* One run
\* ---------------------------------------------------------------------

Absent == [absent |-> TRUE]

\* Trigger "w" has been constructed from some keyword arguments and the
\* host has stored its descriptor; nothing else exists yet.
Init ==
    \E tag \in {ExecTag, CliTag} :
    \E kw \in IF tag = ExecTag THEN ExecKwargsSet ELSE CliKwargsSet :
        /\ cls = [i \in Inst |-> IF i = "w" THEN tag ELSE "absent"]
        /\ kwargs = [i \in Inst |-> IF i = "w" THEN kw ELSE Absent]
        /\ self = [i \in Inst |->
                     IF i = "w" THEN (IF tag = ExecTag THEN ExecInit(kw) ELSE CliInit(kw)) ELSE Absent]
        /\ pc = [i \in Inst |-> IF i = "w" THEN "start" ELSE "absent"]
        /\ operation = [i \in Inst |-> <<>>]
        /\ trace = [i \in Inst |-> <<>>]
        /\ remote = [i \in Inst |-> <<>>]
        /\ client = [i \in Inst |-> "w"]
        /\ persisted = IF tag = ExecTag THEN ExecSerialize(ExecInit(kw)) ELSE CliSerialize(CliInit(kw))

Step(i) ==
    \/ ExecStart(i)
    \/ ExecGetOperationReturns(i)
    \/ ExecGetOperationRaises(i)
    \/ ExecSleepReturns(i)
    \/ ExecAfterYield(i)
    \/ CliStart(i)
    \/ CliWaitReturns(i)
    \/ CliWaitRaises(i)
    \/ CliAfterYield(i)

Next == \E i \in Inst : Step(i)

Spec == Init /\ [][Next]_vars

\* ---------------------------------------------------------------------
\* The host: persisting, cancelling and rebuilding a trigger
\* ---------------------------------------------------------------------

\* Where run() is suspended on an awaited call or sleep.
SuspensionPoints == {"await_get_operation", "sleeping", "await_wait_command_execution_result"}

\* The host abandons the run of trigger i at a suspension point.
Cancel(i) ==
    /\ pc[i] \in SuspensionPoints
    /\ pc' = [pc EXCEPT ![i] = "cancelled"]
    /\ UNCHANGED <<cls, kwargs, self, operation, trace, remote, client, persisted>>

\* The host calls w.serialize() and constructs w2 from the descriptor.
Resume ==
    LET d == Serialize("w")
    IN  /\ pc["w2"] = "absent"
        /\ InitBinds(d[1], d[2])
        /\ cls' = [cls EXCEPT !["w2"] = d[1]]
        /\ kwargs' = [kwargs EXCEPT !["w2"] = d[2]]
        /\ self' = [self EXCEPT !["w2"] = FromDescriptor(d)]
        /\ pc' = [pc EXCEPT !["w2"] = "start"]
        /\ UNCHANGED <<operation, trace, remote, client, persisted>>

\* Triggers "w" and "ref" have been constructed from the same keyword
\* arguments and talk to the same remote client; "w2" does not exist yet.
InitHost ==
    \E tag \in {ExecTag, CliTag} :
    \E kw \in IF tag = ExecTag THEN ExecKwargsSet ELSE CliKwargsSet :
        /\ cls = [i \in Inst |-> IF i = "w2" THEN "absent" ELSE tag]
        /\ kwargs = [i \in Inst |-> IF i = "w2" THEN Absent ELSE kw]
        /\ self = [i \in Inst |->
                     IF i = "w2" THEN Absent ELSE (IF tag = ExecTag THEN ExecInit(kw) ELSE CliInit(kw))]
        /\ pc = [i \in Inst |-> IF i = "w2" THEN "absent" ELSE "start"]
        /\ operation = [i \in Inst |-> <<>>]
        /\ trace = [i \in Inst |-> <<>>]
        /\ remote = [i \in Inst |-> <<>>]
        /\ client = [i \in Inst |-> "w"]
        /\ persisted = IF tag = ExecTag THEN ExecSerialize(ExecInit(kw)) ELSE CliSerialize(CliInit(kw))

NextHost ==
    \/ \E i \in Inst : Step(i)
    \/ Cancel("w")
    \/ Resume

SpecHost == InitHost /\ [][NextHost]_vars

\* ---------------------------------------------------------------------
\* Properties
\* ---------------------------------------------------------------------

RunEnded(i) == pc[i] \in {"done", "raised"}

\* needle occurs in text as a contiguous substring.
Contains(text, needle) ==
    \E k \in 1..(Len(text) - Len(needle) + 1) : SubSeq(text, k, k + Len(needle) - 1) = needle

\* The first n responses of client c are operations that are not done and
\* carry no error message.
StillRunning(c, n) ==
    /\ Len(remote[c]) >= n
    /\ \A k \in 1..n :
          /\ remote[c][k].kind = "return"
          /\ ~remote[c][k].done
          /\ remote[c][k].error_message = ""

\* poll, sleep, poll, sleep, ..., poll, yield: n sleeps of `seconds` each.
PollThenYield(s, n, event) ==
    [k \in 1..(2 * n + 2) |->
        IF k = 2 * n + 2 THEN YieldEntry(event)
        ELSE IF k % 2 = 1 THEN GetOperationCall(s)
        ELSE SleepEntry(s.pooling_period_seconds)]

\* C1 (poll termination): when get_operation answers "not done, no error"
\* N times and "done" on call N+1, run() of the execution trigger has made
\* exactly N+1 get_operation calls, slept exactly N times, each for
\* pooling_period_seconds and each directly after one of the first N polls,
\* and yielded exactly one event {operation_name, operation_done: true};
\* nothing is raised.
C1_PollTermination ==
    \A n \in 0..MaxPolls :
        ( /\ cls["w"] = ExecTag
          /\ StillRunning("w", n)
          /\ Len(remote["w"]) >= n + 1
          /\ remote["w"][n + 1].kind = "return"
          /\ remote["w"][n + 1].done )
        => /\ Len(Calls("w")) = n + 1
           /\ Sleeps("w") = [k \in 1..n |-> SleepEntry(self["w"].pooling_period_seconds)]
           /\ Events("w") =
                << YieldEntry([operation_name |-> remote["w"][n + 1].name, operation_done |-> TRUE]) >>
           /\ trace["w"] =
                PollThenYield(self["w"], n,
                              [operation_name |-> remote["w"][n + 1].name, operation_done |-> TRUE])
           /\ pc["w"] \in {"yielded", "done"}

\* A run that slept once with a non-default period and then ended with its event.
C1_Witness ==
    /\ cls["w"] = ExecTag
    /\ pc["w"] = "done"
    /\ Len(Sleeps("w")) = 1
    /\ self["w"].pooling_period_seconds # DefaultPoolingPeriodSeconds
    /\ Len(Events("w")) = 1

\* C2 (poll error propagation, as claimed): whenever the first
\* get_operation call returns an operation whose error message is
\* non-empty, whatever its done flag, run() yields no event and ends with
\* an error whose text contains that message.
C2_PollErrorPropagation ==
    ( /\ cls["w"] = ExecTag
      /\ Len(remote["w"]) >= 1
      /\ remote["w"][1].kind = "return"
      /\ remote["w"][1].error_message # "" )
    => /\ Events("w") = <<>>
       /\ pc["w"] = "raised"
       /\ Len(Errors("w")) = 1
       /\ Contains(ExStr(Errors("w")[1].ex), remote["w"][1].error_message)

\* C3 (no double termination): a run never has more than one event; a run
\* that ended normally has yielded exactly one event and raised nothing, a
\* run that ended with a propagated error has yielded none.
C3_NoDoubleTermination ==
    \A i \in Inst :
        /\ Len(Events(i)) <= 1
        /\ pc[i] = "done" => (Len(Events(i)) = 1 /\ Errors(i) = <<>>)
        /\ pc[i] = "raised" => (Events(i) = <<>> /\ Len(Errors(i)) = 1)

\* The command trigger ended normally after its error event.
C3_Witness ==
    /\ cls["w"] = CliTag
    /\ pc["w"] = "done"
    /\ Len(Events("w")) = 1
    /\ Events("w")[1].event.status = "error"

\* C4 (command failure): when wait_command_execution_result raises an
\* AirflowException, run() of the command trigger yields exactly one event
\* with status "error" whose message is the text of the exception (M for
\* AirflowException(M)), yields no success event, and nothing propagates.
C4_CommandFailure ==
    ( /\ cls["w"] = CliTag
      /\ Len(remote["w"]) >= 1
      /\ remote["w"][1].kind = "raise"
      /\ remote["w"][1].ex.cls = "AirflowException" )
    => /\ Len(Events("w")) = 1
       /\ DOMAIN Events("w")[1].event = {"status", "message"}
       /\ Events("w")[1].event.status = "error"
       /\ Len(remote["w"][1].ex.args) = 1
             => Events("w")[1].event.message = remote["w"][1].ex.args[1]
       /\ remote["w"][1].ex.args = <<>> => Events("w")[1].event.message = ""
       /\ Errors("w") = <<>>
       /\ pc["w"] \in {"yielded", "done"}

\* AirflowException("boom") was raised and the run has ended.
C4_Witness ==
    /\ cls["w"] = CliTag
    /\ pc["w"] = "done"
    /\ remote["w"] = << [kind |-> "raise", ex |-> AirflowException("boom")] >>

\* C5 (command success): when wait_command_execution_result returns R,
\* run() of the command trigger yields exactly one event
\* {status: "success", result: R} with R unchanged, no error event, and
\* nothing propagates.
C5_CommandSuccess ==
    ( /\ cls["w"] = CliTag
      /\ Len(remote["w"]) >= 1
      /\ remote["w"][1].kind = "return" )
    => /\ Events("w") = << YieldEntry([status |-> "success", result |-> remote["w"][1].result]) >>
       /\ Errors("w") = <<>>
       /\ pc["w"] \in {"yielded", "done"}

\* A result was returned and the run has ended.
C5_Witness ==
    /\ cls["w"] = CliTag
    /\ pc["w"] = "done"
    /\ Len(remote["w"]) = 1
    /\ remote["w"][1].kind = "return"
    /\ remote["w"][1].result.exit_code = 1

\* Two traces agree as far as both have got.
Agree(a, b) ==
    \A k \in 1..(IF Len(a) < Len(b) THEN Len(a) ELSE Len(b)) : a[k] = b[k]

\* Trigger j, run from scratch, does what trigger i does: the same calls
\* with the same arguments, the same sleeps, the same events or error, in
\* the same order, and the same way of ending.
SameBehaviour(i, j) ==
    /\ Agree(trace[i], trace[j])
    /\ (RunEnded(i) /\ RunEnded(j)) => (trace[i] = trace[j] /\ pc[i] = pc[j])
    /\ (pc[i] = "yielded" /\ RunEnded(j)) => (trace[i] = trace[j] /\ pc[j] = "done")
    /\ (pc[j] = "yielded" /\ RunEnded(i)) => (trace[i] = trace[j] /\ pc[i] = "done")

\* C6 (idempotent resumption): the trigger w2 the host constructs from
\* w.serialize() and runs from scratch against the same remote responses
\* makes the same remote calls with the same arguments and produces the
\* same events, or the same propagated error, as w.
C6_IdempotentResumption ==
    pc["w2"] # "absent" =>
        /\ cls["w2"] = cls["w"]
        /\ pc["w"] # "cancelled" => SameBehaviour("w", "w2")
        /\ SameBehaviour("ref", "w2")

\* Both w and w2 have polled twice, slept in between and ended.
C6_Witness ==
    /\ cls["w"] = ExecTag
    /\ pc["w"] = "done"
    /\ pc["w2"] = "done"
    /\ Len(Sleeps("w2")) = 1
    /\ "pooling_period_seconds" \in DOMAIN kwargs["w"]
    /\ trace["w2"] = trace["w"]

ParamsOf(tag) == IF tag = ExecTag THEN ExecParams ELSE CliParams

\* The default of an optional constructor parameter, from the signatures.
DefaultOf(k) ==
    CASE k = "gcp_conn_id" -> "google_cloud_default"
      [] k = "impersonation_chain" -> None
      [] k = "pooling_period_seconds" -> 30
      [] k = "poll_interval" -> 10

\* serialize() of a trigger freshly constructed from the mapping m of class tag.
Reserialize(tag, m) == IF tag = ExecTag THEN ExecSerialize(ExecInit(m)) ELSE CliSerialize(CliInit(m))

\* C7 (serialization round trip): serialize() returns the trigger's own
\* type tag and a mapping with exactly one key per constructor parameter,
\* each holding the value given at construction or the parameter's
\* default; a trigger constructed from that mapping serializes to an equal
\* (type tag, mapping) pair.
C7_SerializationRoundTrip ==
    \A i \in Inst :
        pc[i] # "absent" =>
            LET d == Serialize(i)
            IN  /\ d[1] = cls[i]
                /\ DOMAIN d[2] = ParamsOf(cls[i])
                /\ \A k \in DOMAIN d[2] :
                      d[2][k] = IF k \in DOMAIN kwargs[i] THEN kwargs[i][k] ELSE DefaultOf(k)
                /\ InitBinds(d[1], d[2])
                /\ Reserialize(d[1], d[2]) = d
                /\ i = "w2" => d = Serialize("w")

\* w2 was constructed from the descriptor of a command trigger that was
\* given an impersonation chain and left poll_interval to its default.
C7_Witness ==
    /\ cls["w"] = CliTag
    /\ pc["w2"] # "absent"
    /\ "poll_interval" \notin DOMAIN kwargs["w"]
    /\ "impersonation_chain" \in DOMAIN kwargs["w"]
    /\ kwargs["w2"] = Serialize("w")[2]

\* C8 (cancellation safety): when the host has abandoned the run of w at
\* a suspension point, that run has yielded no event, w still serializes
\* to the descriptor stored before the run, and a trigger built from that
\* descriptor and run from scratch behaves as the run of a trigger that
\* was never cancelled.
C8_CancellationSafety ==
    pc["w"] = "cancelled" =>
        /\ Events("w") = <<>>
        /\ Errors("w") = <<>>
        /\ Serialize("w") = persisted
        /\ pc["w2"] # "absent" =>
              /\ Serialize("w2") = persisted
              /\ SameBehaviour("ref", "w2")

\* w was abandoned while sleeping; w2 and the uncancelled run both went on
\* to a second poll and ended alike.
C8_Witness ==
    /\ cls["w"] = ExecTag
    /\ pc["w"] = "cancelled"
    /\ Len(Sleeps("w")) = 1
    /\ Len(trace["w"]) = 2
    /\ pc["w2"] = "done"
    /\ pc["ref"] = "done"
    /\ Len(Calls("w2")) = 2

\* C9 (transport failure in the poll watcher): when a get_operation call
\* raises, on the first poll or after not-done polls, run() ends with that
\* same error, has yielded no event, and has made no poll and no sleep
\* after the failed call.
C9_TransportFailure ==
    LET k == Len(remote["w"])
    IN  ( /\ cls["w"] = ExecTag
          /\ k >= 1
          /\ remote["w"][k].kind = "raise" )
        => /\ pc["w"] = "raised"
           /\ Events("w") = <<>>
           /\ Errors("w") = << RaiseEntry(remote["w"][k].ex) >>
           /\ trace["w"][Len(trace["w"])] = RaiseEntry(remote["w"][k].ex)
           /\ Len(Calls("w")) = k
           /\ Len(Sleeps("w")) = k - 1

\* The second poll raised a ConnectionError after one not-done poll.
C9_Witness ==
    /\ cls["w"] = ExecTag
    /\ pc["w"] = "raised"
    /\ Len(remote["w"]) = 2
    /\ remote["w"][2].kind = "raise"
    /\ remote["w"][2].ex.cls = "ConnectionError"

\* C10 (unexpected failure in the command watcher): when
\* wait_command_execution_result raises an error that is not an
\* AirflowException, run() yields no event and that error propagates.
C10_UnexpectedFailure ==
    ( /\ cls["w"] = CliTag
      /\ Len(remote["w"]) >= 1
      /\ remote["w"][1].kind = "raise"
      /\ remote["w"][1].ex.cls # "AirflowException" )
    => /\ Events("w") = <<>>
       /\ Errors("w") = << RaiseEntry(remote["w"][1].ex) >>
       /\ pc["w"] = "raised"

\* A ConnectionError was raised by the awaited call.
C10_Witness ==
    /\ cls["w"] = CliTag
    /\ pc["w"] = "raised"
    /\ remote["w"] = << [kind |-> "raise", ex |-> [cls |-> "ConnectionError", args |-> <<"unreachable">>]] >>

\* The response that answered the k-th poll of w was "not done, no error".
PollStillRunning(k) ==
    /\ k <= Len(remote["w"])
    /\ remote["w"][k].kind = "return"
    /\ ~remote["w"][k].done
    /\ remote["w"][k].error_message = ""

\* C11 (ordering inside one poll-watcher run): the run is poll, sleep,
\* poll, sleep, ..., poll, ended by at most one of a yielded event or a
\* raised error, never both; the event or error is the last thing the run
\* does (no get_operation call and no sleep follows it), and every sleep
\* comes directly after a poll that returned done = false with an empty
\* error message.
C11_PollOrdering ==
    cls["w"] = ExecTag =>
        LET t == trace["w"]
        IN  /\ \A k \in 1..Len(t) :
                  /\ k % 2 = 1 => t[k] = GetOperationCall(self["w"])
                  /\ k % 2 = 0 => (IsSleep(t[k]) \/ IsYield(t[k]) \/ IsRaise(t[k]))
                  /\ (IsYield(t[k]) \/ IsRaise(t[k])) => k = Len(t)
                  /\ IsSleep(t[k]) => (k % 2 = 0 /\ IsCall(t[k - 1]) /\ PollStillRunning(k \div 2))
            /\ Len(Events("w")) + Len(Errors("w")) <= 1
            /\ pc["w"] \in {"yielded", "done"} <=> Len(Events("w")) = 1
            /\ pc["w"] = "raised" <=> Len(Errors("w")) = 1
            /\ pc["w"] = "sleeping" <=> (Len(t) > 0 /\ IsSleep(t[Len(t)]))
            /\ pc["w"] = "await_get_operation" <=> (Len(t) > 0 /\ IsCall(t[Len(t)]))

\* Two polls with a sleep in between, then the event, and the run is over.
C11_Witness ==
    /\ cls["w"] = ExecTag
    /\ pc["w"] = "done"
    /\ Len(trace["w"]) = 4
    /\ IsSleep(trace["w"][2])
    /\ IsYield(trace["w"][4])

\* C12 (no retry bound, constant interval): for every k, a poll watcher
\* whose first k polls all returned done = false with an empty error
\* message is still polling after them: it has not ended, failed or
\* yielded, it has slept once per poll, and every sleep was for exactly
\* the pooling_period_seconds given at construction, however many polls
\* came before.
C12_NoRetryBound ==
    \A k \in 0..(MaxPolls + 1) :
        ( /\ cls["w"] = ExecTag
          /\ Len(remote["w"]) = k
          /\ StillRunning("w", k) )
        => /\ pc["w"] \in {"start", "await_get_operation", "sleeping"}
           /\ Events("w") = <<>>
           /\ Errors("w") = <<>>
           /\ Len(Sleeps("w")) = k
           /\ Len(Calls("w")) \in {k, k + 1}
           /\ \A j \in 1..Len(Sleeps("w")) :
                 Sleeps("w")[j].seconds =
                     IF "pooling_period_seconds" \in DOMAIN kwargs["w"]
                     THEN kwargs["w"]["pooling_period_seconds"]
                     ELSE 30

\* Two polls answered "not done", two sleeps of the configured period, and
\* the watcher is polling for the third time.
C12_Witness ==
    /\ cls["w"] = ExecTag
    /\ StillRunning("w", 2)
    /\ Len(remote["w"]) = 2
    /\ pc["w"] = "await_get_operation"
    /\ Len(Calls("w")) = 3
    /\ "pooling_period_seconds" \in DOMAIN kwargs["w"]

\* C13 (the command watcher never loops): once started, a run of the
\* command trigger has made exactly one remote call,
\* wait_command_execution_result, with project_id, region, environment_id,
\* execution_cmd_info and poll_interval exactly as given at construction
\* (poll_interval 10 when not given); it never sleeps and never calls
\* get_operation, and makes no second call after the first has answered.
C13_CommandNeverLoops ==
    cls["w"] = CliTag =>
        /\ Sleeps("w") = <<>>
        /\ \A k \in 1..Len(Calls("w")) : Calls("w")[k].fn # "get_operation"
        /\ pc["w"] = "start" => Calls("w") = <<>>
        /\ pc["w"] # "start" =>
              /\ Len(Calls("w")) = 1
              /\ Calls("w")[1].fn = "wait_command_execution_result"
              /\ Calls("w")[1].args =
                    [ project_id |-> kwargs["w"]["project_id"],
                      region |-> kwargs["w"]["region"],
                      environment_id |-> kwargs["w"]["environment_id"],
                      execution_cmd_info |-> kwargs["w"]["execution_cmd_info"],
                      poll_interval |->
                          IF "poll_interval" \in DOMAIN kwargs["w"]
                          THEN kwargs["w"]["poll_interval"] ELSE 10 ]
        /\ Len(remote["w"]) <= 1

\* A command trigger given its own poll_interval has ended after its one call.
C13_Witness ==
    /\ cls["w"] = CliTag
    /\ pc["w"] = "done"
    /\ "poll_interval" \in DOMAIN kwargs["w"]
    /\ Len(Calls("w")) = 1
    /\ kwargs["w"]["execution_cmd_info"].execution_id = "e-2"

\* C14 (error on a later poll): when polls 1..k-1 returned done = false
\* with an empty error message and poll k returns done = false with a
\* non-empty error message E, the poll watcher has slept exactly k-1
\* times and not after poll k, has yielded no event, and has failed with
\* an AirflowException whose text contains E, the message of the handle
\* of poll k itself; the handles before it, which carried no message,
\* raised nothing.
C14_ErrorOnLaterPoll ==
    \A k \in 1..(MaxPolls + 1) :
        ( /\ cls["w"] = ExecTag
          /\ Len(remote["w"]) = k
          /\ StillRunning("w", k - 1)
          /\ remote["w"][k].kind = "return"
          /\ ~remote["w"][k].done
          /\ remote["w"][k].error_message # "" )
        => /\ pc["w"] = "raised"
           /\ Len(Sleeps("w")) = k - 1
           /\ Len(Calls("w")) = k
           /\ Events("w") = <<>>
           /\ Len(trace["w"]) = 2 * k
           /\ IsRaise(trace["w"][2 * k])
           /\ Len(Errors("w")) = 1
           /\ Errors("w")[1].ex.cls = "AirflowException"
           /\ Contains(ExStr(Errors("w")[1].ex), remote["w"][k].error_message)
           /\ ExStr(Errors("w")[1].ex) =
                 "Cloud Composer Environment error: " \o remote["w"][k].error_message
           /\ operation["w"] = << remote["w"][k] >>

\* The second poll reported an error after one clean poll and one sleep.
C14_Witness ==
    /\ cls["w"] = ExecTag
    /\ pc["w"] = "raised"
    /\ Len(remote["w"]) = 2
    /\ remote["w"][2].kind = "return"
    /\ remote["w"][2].error_message = "quota exceeded"
    /\ Len(Sleeps("w")) = 1

\* The handle returned by the latest poll of w.
FinalHandle == remote["w"][Len(remote["w"])]

\* C15 (content of the poll event, as claimed): every event the poll
\* watcher yields has operation_done = true, both fields come from the
\* handle of the final poll, and its operation_name equals the operation
\* name the watcher was constructed with and polled for.
C15_PollEventContent ==
    (cls["w"] = ExecTag /\ Len(Events("w")) >= 1) =>
        /\ Events("w")[1].event.operation_done = TRUE
        /\ Events("w")[1].event.operation_done = FinalHandle.done
        /\ Events("w")[1].event.operation_name = FinalHandle.name
        /\ Events("w")[1].event.operation_name = kwargs["w"]["operation_name"]
        /\ \A k \in 1..Len(Calls("w")) :
              Calls("w")[k].args.operation_name = kwargs["w"]["operation_name"]

\* C15 (content of the poll event, amended): every event the poll watcher
\* yields has operation_done = true, and both of its fields are taken
\* from the handle returned by the final poll of that run, the one that
\* reported done, never from the handle of an earlier poll; its
\* operation_name is the name that handle carries, which is the name the
\* watcher was constructed with and polled for whenever the remote client
\* returned the handle under the name it was asked for.
C15_PollEventContentAmended ==
    (cls["w"] = ExecTag /\ Len(Events("w")) >= 1) =>
        /\ Len(Events("w")) = 1
        /\ DOMAIN Events("w")[1].event = {"operation_name", "operation_done"}
        /\ FinalHandle.kind = "return"
        /\ FinalHandle.done
        /\ Len(Calls("w")) = Len(remote["w"])
        /\ operation["w"] = << FinalHandle >>
        /\ Events("w")[1].event.operation_done = TRUE
        /\ Events("w")[1].event.operation_done = FinalHandle.done
        /\ Events("w")[1].event.operation_name = FinalHandle.name
        /\ \A k \in 1..Len(Calls("w")) :
              Calls("w")[k].args.operation_name = kwargs["w"]["operation_name"]
        /\ FinalHandle.name = kwargs["w"]["operation_name"]
              => Events("w")[1].event.operation_name = kwargs["w"]["operation_name"]

\* The event was yielded on the second poll, whose handle carries another
\* name than the handle of the first poll.
C15_Witness ==
    /\ cls["w"] = ExecTag
    /\ pc["w"] = "done"
    /\ Len(remote["w"]) = 2
    /\ remote["w"][1].name # remote["w"][2].name
    /\ remote["w"][2].name = kwargs["w"]["operation_name"]
    /\ Len(Events("w")) = 1

\* The attributes the constructor of trigger i set from its arguments.
Constructed(i) == IF cls[i] = ExecTag THEN ExecInit(kwargs[i]) ELSE CliInit(kwargs[i])

\* C16 (run() keeps the descriptor unchanged): at every step of a run of
\* either trigger, before, between and after polls, sleeps, events and
\* errors, the attributes of the trigger are those its constructor set, so
\* serialize() returns the (type tag, mapping) pair it returned before the
\* run; nothing learned from a remote response is stored on the trigger.
C16_DescriptorUnchanged ==
    \A i \in Inst :
        pc[i] # "absent" =>
            /\ self[i] = Constructed(i)
            /\ i = "w" => Serialize(i) = persisted
            /\ Serialize(i)[2] = [k \in ParamsOf(cls[i]) |-> Constructed(i)[k]]

\* A command run has received its result and ended.
C16_Witness ==
    /\ cls["w"] = CliTag
    /\ pc["w"] = "done"
    /\ Len(remote["w"]) = 1
    /\ remote["w"][1].kind = "return"
    /\ Events("w")[1].event.status = "success"
    /\ Serialize("w") = persisted

\* ---------------------------------------------------------------------
\* Several triggers on one cooperative scheduler
\* ---------------------------------------------------------------------

\* Keyword arguments with none or all of the optional parameters.
ConcExecKwargsSet == { kw \in ExecKwargsSet : DOMAIN kw \in {ExecRequired, ExecParams} }

ConcCliKwargsSet == { kw \in CliKwargsSet : DOMAIN kw \in {CliRequired, CliParams} }

ConcKwargsSet(tag) == IF tag = ExecTag THEN ConcExecKwargsSet ELSE ConcCliKwargsSet

\* Trigger "ref" has been constructed and is the only trigger there is.
\* "w" will talk to the remote client of ref, "w2" to a client of its own.
InitConc ==
    \E tag \in {ExecTag, CliTag} :
    \E kw \in ConcKwargsSet(tag) :
        /\ cls = [i \in Inst |-> IF i = "ref" THEN tag ELSE "absent"]
        /\ kwargs = [i \in Inst |-> IF i = "ref" THEN kw ELSE Absent]
        /\ self = [i \in Inst |->
                     IF i = "ref" THEN (IF tag = ExecTag THEN ExecInit(kw) ELSE CliInit(kw)) ELSE Absent]
        /\ pc = [i \in Inst |-> IF i = "ref" THEN "start" ELSE "absent"]
        /\ operation = [i \in Inst |-> <<>>]
        /\ trace = [i \in Inst |-> <<>>]
        /\ remote = [i \in Inst |-> <<>>]
        /\ client = [i \in Inst |-> IF i = "w2" THEN "w2" ELSE "ref"]
        /\ persisted = IF tag = ExecTag THEN ExecSerialize(ExecInit(kw)) ELSE CliSerialize(CliInit(kw))

\* The run of ref, alone, has gone as far as its remote client answers.
SoloOver ==
    \/ RunEnded("ref")
    \/ pc["ref"] = "await_get_operation" /\ Len(remote[client["ref"]]) >= MaxPolls

\* After the solo run the host constructs two triggers and schedules them
\* together: w with the keyword arguments of ref, w2 with any.
Launch ==
    /\ SoloOver
    /\ pc["w"] = "absent"
    /\ \E tag \in {ExecTag, CliTag} :
       \E kw \in ConcKwargsSet(tag) :
          /\ cls' = [cls EXCEPT !["w"] = cls["ref"], !["w2"] = tag]
          /\ kwargs' = [kwargs EXCEPT !["w"] = kwargs["ref"], !["w2"] = kw]
          /\ self' = [self EXCEPT
                        !["w"] = (IF cls["ref"] = ExecTag THEN ExecInit(kwargs["ref"])
                                                        ELSE CliInit(kwargs["ref"])),
                        !["w2"] = (IF tag = ExecTag THEN ExecInit(kw) ELSE CliInit(kw))]
          /\ pc' = [pc EXCEPT !["w"] = "start", !["w2"] = "start"]
    /\ UNCHANGED <<operation, trace, remote, client, persisted>>

NextConc ==
    \/ Step("ref")
    \/ Launch
    \/ \E i \in {"w", "w2"} : Step(i)

SpecConc == InitConc /\ [][NextConc]_vars

\* Everything trigger i owns.
Local(i) == <<cls[i], kwargs[i], self[i], pc[i], operation[i], trace[i]>>

\* A step of a running trigger leaves every other trigger as it was, and
\* leaves alone the responses of every remote client but its own.
Isolated ==
    \A i \in Inst : \A j \in Inst \ {i} :
        (pc[i] # "absent" /\ Local(i)' # Local(i)) =>
            /\ Local(j)' = Local(j)
            /\ client[j] # client[i] => remote'[client[j]] = remote[client[j]]

\* C17 (independence of concurrent watchers): when triggers of any mix of
\* classes are interleaved at their suspension points, the calls, sleeps,
\* events and outcome of w are, under every interleaving with w2, those of
\* the same trigger run alone against the same remote responses (ref);
\* and no step of one trigger changes anything another trigger owns.
C17_Independence ==
    /\ [](pc["w"] # "absent" => (SameBehaviour("ref", "w") /\ self["w"] = self["ref"]))
    /\ [][Isolated]_vars

\* Two poll watchers on different operations are suspended at the same
\* time, w in its sleep and w2 in its second poll, after the solo run ended.
C17_Witness ==
    /\ pc["ref"] = "done"
    /\ cls["w"] = ExecTag
    /\ cls["w2"] = ExecTag
    /\ self["w"].operation_name # self["w2"].operation_name
    /\ pc["w"] = "sleeping"
    /\ pc["w2"] = "await_get_operation"
    /\ Len(Calls("w2")) = 2

\* ---------------------------------------------------------------------
\* A poll watcher whose awaits return and whose operation ends
\* ---------------------------------------------------------------------

\* A handle that ends the polling: done, or carrying an error message.
EndsPolling(r) == r.kind = "return" /\ (r.done \/ r.error_message # "")

\* The remote side does not keep the operation running for ever: the last
\* response it gives within the bound is a handle that ends the polling.
RemoteAnswersInTime ==
    Len(remote["w"]) >= MaxPolls => EndsPolling(remote["w"][MaxPolls])

InitLive == Init /\ cls["w"] = ExecTag

ExecStep(i) ==
    \/ ExecStart(i)
    \/ ExecGetOperationReturns(i)
    \/ ExecGetOperationRaises(i)
    \/ ExecSleepReturns(i)
    \/ ExecAfterYield(i)

NextLive == ExecStep("w") /\ RemoteAnswersInTime'

\* Every awaited call and sleep returns and the generator is resumed.
SpecLive == InitLive /\ [][NextLive]_vars /\ WF_vars(NextLive)

\* C18 (eventual termination of the poll watcher): when every
\* get_operation call and every sleep returns and the remote side
\* eventually returns a handle with done = true or a non-empty error
\* message, the run eventually ends, by its event or by failing; it ends
\* at the first such handle and never polls past it.
C18_EventualTermination ==
    /\ <>(RunEnded("w"))
    /\ [](\A k \in 1..Len(remote["w"]) :
             EndsPolling(remote["w"][k]) =>
                 /\ k = Len(remote["w"])
                 /\ Len(Calls("w")) = k
                 /\ Len(Sleeps("w")) = k - 1
                 /\ pc["w"] \in {"yielded", "done", "raised"}
                 /\ remote["w"][k].done => (Len(Events("w")) = 1 /\ Errors("w") = <<>>)
                 /\ ~remote["w"][k].done => (Len(Errors("w")) = 1 /\ Events("w") = <<>>))

\* The run ended on the handle of the last poll the bound allows.
C18_Witness ==
    /\ pc["w"] = "done"
    /\ Len(remote["w"]) = MaxPolls
    /\ StillRunning("w", MaxPolls - 1)
    /\ EndsPolling(remote["w"][MaxPolls])

====
